---- MODULE Spec2Model ----
(***************************************************************************)
(* A model of go-linenoise (linenoise.go): the Readline entry point, the   *)
(* raw-mode enter/exit discipline, the editing loop with its byte decoder  *)
(* and the edit-buffer operations; and, each on its own, the history, the  *)
(* single-line refresh and the terminal-width probe.                       *)
(*                                                                         *)
(* Bytes are integers.  The buffer `buf` is the Go slice make([]byte,      *)
(* MaxLine), modelled as a function on 0..MaxLine-1.  Go's uint is         *)
(* modelled with wrap-around at 2^UintBits.                                *)
(***************************************************************************)
EXTENDS Integers, Sequences, FiniteSets, TLC

(***************************************************************************)
(* Bounds of the model.                                                    *)
(***************************************************************************)
\* capacity of the buffer Readline allocates (4096 in the source; scaled)
MaxLine == 3
\* width of Go's uint (64 in the source; scaled so that TLC can wrap it)
UintBits == 7

\* size of the reply buffer of getCursorPosition (32 in the source; scaled)
ProbeBufLen == 6
\* the longest history the application asks for
MaxHistory == 2
\* AddHistory calls the application makes
MaxAdds == 3

UintMod == 2 ^ UintBits

\* uint arithmetic: the value of an expression after wrap-around
U(x) == x % UintMod

(***************************************************************************)
(* Key codes (linenoise.go, const block) and the bytes the decoder          *)
(* compares against.                                                       *)
(***************************************************************************)
CTRL_A == 1
CTRL_B == 2
CTRL_C == 3
CTRL_D == 4
CTRL_E == 5
CTRL_F == 6
CTRL_H == 8
CTRL_K == 11
CTRL_L == 12
ENTER == 13
CTRL_N == 14
CTRL_P == 16
CTRL_T == 20
CTRL_U == 21
CTRL_W == 23
ESC == 27
BACKSPACE == 127
SPACE == 32
LBRACKET == 91
LETTER_O == 79
DIGIT_0 == 48
DIGIT_3 == 51
DIGIT_9 == 57
TILDE == 126
KEY_UP == 65
KEY_DOWN == 66
KEY_RIGHT == 67
KEY_LEFT == 68
KEY_HOME == 72
KEY_END == 70
DefaultCols == 80
SEMICOLON == 59
LETTER_R == 82
HistoryMaxLength == 100

\* the bytes the editing loop maps to a command of its own (switch c)
ControlKeys ==
    {CTRL_A, CTRL_B, CTRL_C, CTRL_D, CTRL_E, CTRL_F, CTRL_H, CTRL_K, CTRL_L,
     ENTER, CTRL_N, CTRL_P, CTRL_T, CTRL_U, CTRL_W, ESC, BACKSPACE}

\* sample bytes that reach the default branch: NUL, space and 'a'
InsertKeys == {0, SPACE, 97}

\* the bytes a top-level read may deliver first
TopKeys == ControlKeys \cup InsertKeys

(***************************************************************************)
(* isUnsupportedTerm                                                       *)
(***************************************************************************)
unsupportedTerms == {"dumb", "cons25", "emacs"}

Terms == {"", "dumb", "cons25", "emacs", "xterm"}

\* variant: an unset TERM is taken for a capable terminal
isUnsupportedTerm_IgnoresEmpty(t) == t \in unsupportedTerms

isUnsupportedTerm(t) == t = "" \/ t \in unsupportedTerms

(***************************************************************************)
(* Go slice expressions and copy() on the buffer.                          *)
(***************************************************************************)
\* buf[lo:hi] is legal iff 0 <= lo <= hi <= cap(buf)
SliceOK(lo, hi) == 0 <= lo /\ lo <= hi /\ hi <= MaxLine

\* buf[i] is legal iff 0 <= i < len(buf)
IndexOK(i) == 0 <= i /\ i < MaxLine

Min(a, b) == IF a < b THEN a ELSE b

\* copy(buf[d:], buf[s:e]): memmove of min(len(dst), len(src)) bytes
GoCopy(b, d, s, e) ==
    LET n == Min(MaxLine - d, e - s)
    IN  [i \in 0 .. MaxLine - 1 |->
            IF d <= i /\ i < d + n THEN b[s + (i - d)] ELSE b[i]]

\* string(buf[:n])
BufString(b, n) == [i \in 1 .. n |-> b[i - 1]]

(***************************************************************************)
(* refreshSingleLine: the window computation and the slice it emits.       *)
(* The result is "ok", "panic" (slice bounds out of range) or "hang" (the  *)
(* first loop never ends).                                                 *)
(***************************************************************************)
\* for uint(plen)+pos >= l.cols { bi++; editLen--; pos-- }: whether the loop's
\* condition is false after k turns
ShiftDone(plen, pos, cols, k) == U(plen + pos - k) < cols

\* for uint(plen)+editLen > l.cols { editLen-- }: likewise after j turns
TrimDone(plen, len, cols, j) == U(plen + len - j) <= cols

\* the loops leave after the least number of turns that makes the condition
\* false; the first loop never leaves when no number of turns does
RefreshWindow(plen, pos, len, cols) ==
    IF ~(\E k \in 0 .. UintMod - 1 : ShiftDone(plen, pos, cols, k))
    THEN [st |-> "hang", bi |-> 0, pos |-> pos, len |-> len]
    ELSE LET k == CHOOSE n \in 0 .. UintMod - 1 :
                    /\ ShiftDone(plen, pos, cols, n)
                    /\ \A m \in 0 .. n - 1 : ~ShiftDone(plen, pos, cols, m)
             j == CHOOSE n \in 0 .. UintMod - 1 :
                    /\ TrimDone(plen, U(len - k), cols, n)
                    /\ \A m \in 0 .. n - 1 : ~TrimDone(plen, U(len - k), cols, m)
         IN  [st |-> "ok", bi |-> U(k), pos |-> U(pos - k),
              len |-> U(len - k - j)]

refreshSingleLine(plen, pos, len, cols) ==
    LET w == RefreshWindow(plen, pos, len, cols)
    IN  IF w.st = "hang" THEN "hang"
        ELSE IF SliceOK(w.bi, U(w.bi + w.len)) THEN "ok" ELSE "panic"

\* mlMode is never set: refreshLine is refreshSingleLine
refreshLine(plen, pos, len, cols) == refreshSingleLine(plen, pos, len, cols)

(***************************************************************************)
(* The edit-buffer operations.  `l` is the LineNoise value: its fields     *)
(* buf, pos, editLen, bufLen, plen, cols.  Every operation yields the new  *)
(* value and how the call ended: "ok", "panic" (index or slice out of      *)
(* range), "hang" (refresh never returns) or "werr" (write to out failed). *)
(***************************************************************************)
Ended(l, st) == [l |-> l, st |-> st]

Refreshed(l) == Ended(l, refreshLine(l.plen, l.pos, l.editLen, l.cols))

\* editInsert(c); wok: whether the write of the single byte succeeds
editInsert(l, c, wok) ==
    IF l.editLen < l.bufLen
    THEN IF l.editLen = l.pos
         THEN IF ~IndexOK(l.pos)
              THEN Ended(l, "panic")
              ELSE LET l1 == [l EXCEPT !.buf[l.pos] = c,
                                       !.pos = U(l.pos + 1),
                                       !.editLen = U(l.editLen + 1)]
                   IN  IF ~IndexOK(l1.editLen)
                       THEN Ended(l1, "panic")
                       ELSE LET l2 == [l1 EXCEPT !.buf[l1.editLen] = 0]
                            IN  IF U(l2.plen + l2.editLen) < l2.cols
                                THEN Ended(l2, IF wok THEN "ok" ELSE "werr")
                                ELSE Refreshed(l2)
         ELSE IF ~(SliceOK(l.pos + 1, MaxLine) /\ SliceOK(l.pos, l.editLen))
              THEN Ended(l, "panic")
              ELSE LET l1 == [l EXCEPT
                                !.buf = [GoCopy(l.buf, l.pos + 1, l.pos, l.editLen)
                                            EXCEPT ![l.pos] = c],
                                !.editLen = U(l.editLen + 1),
                                !.pos = U(l.pos + 1)]
                   IN  IF ~IndexOK(l1.editLen)
                       THEN Ended(l1, "panic")
                       ELSE Refreshed([l1 EXCEPT !.buf[l1.editLen] = 0])
    ELSE Ended(l, "ok")

editMoveLeft(l) ==
    IF l.pos > 0 THEN Refreshed([l EXCEPT !.pos = U(l.pos - 1)]) ELSE Ended(l, "ok")

\* variant: the cursor moves right without the test against editLen
editMoveRight_Unguarded(l) == Refreshed([l EXCEPT !.pos = U(l.pos + 1)])

editMoveRight(l) ==
    IF l.pos # l.editLen
    THEN Refreshed([l EXCEPT !.pos = U(l.pos + 1)])
    ELSE Ended(l, "ok")

editMoveHome(l) ==
    IF l.pos # 0 THEN Refreshed([l EXCEPT !.pos = 0]) ELSE Ended(l, "ok")

editMoveEnd(l) ==
    IF l.pos # l.editLen
    THEN Refreshed([l EXCEPT !.pos = l.editLen])
    ELSE Ended(l, "ok")

\* the body is commented out in the source: no effect
editHistoryNext(l) == Ended(l, "ok")

editDelete(l) ==
    IF l.editLen > 0 /\ l.pos < l.editLen
    THEN IF ~(SliceOK(l.pos, MaxLine) /\ SliceOK(l.pos + 1, l.editLen))
         THEN Ended(l, "panic")
         ELSE LET n == U(l.editLen - 1)
              IN  Refreshed([l EXCEPT
                      !.buf = [GoCopy(l.buf, l.pos, l.pos + 1, l.editLen)
                                  EXCEPT ![n] = 0],
                      !.editLen = n])
    ELSE Ended(l, "ok")

\* variant: the cursor is not tested before the byte on its left is removed
editBackspace_NoCursorTest(l) ==
    IF l.editLen > 0
    THEN IF ~(SliceOK(l.pos - 1, MaxLine) /\ SliceOK(l.pos, l.editLen))
         THEN Ended(l, "panic")
         ELSE LET n == U(l.editLen - 1)
              IN  Refreshed([l EXCEPT
                      !.buf = [GoCopy(l.buf, l.pos - 1, l.pos, l.editLen)
                                  EXCEPT ![n] = 0],
                      !.pos = U(l.pos - 1),
                      !.editLen = n])
    ELSE Ended(l, "ok")

editBackspace(l) ==
    IF l.pos > 0 /\ l.editLen > 0
    THEN IF ~(SliceOK(l.pos - 1, MaxLine) /\ SliceOK(l.pos, l.editLen))
         THEN Ended(l, "panic")
         ELSE LET n == U(l.editLen - 1)
              IN  Refreshed([l EXCEPT
                      !.buf = [GoCopy(l.buf, l.pos - 1, l.pos, l.editLen)
                                  EXCEPT ![n] = 0],
                      !.pos = U(l.pos - 1),
                      !.editLen = n])
    ELSE Ended(l, "ok")

\* for l.pos > 0 && l.buf[l.pos-1] == ' ' { l.pos-- }
RECURSIVE SkipSpaces(_, _)
SkipSpaces(b, pos) ==
    IF pos > 0 /\ IndexOK(pos - 1) /\ b[pos - 1] = SPACE
    THEN SkipSpaces(b, pos - 1)
    ELSE pos

\* for l.pos > 0 && l.buf[l.pos-1] != ' ' { l.pos-- }
RECURSIVE SkipWord(_, _)
SkipWord(b, pos) ==
    IF pos > 0 /\ IndexOK(pos - 1) /\ b[pos - 1] # SPACE
    THEN SkipWord(b, pos - 1)
    ELSE pos

\* variant: the spaces before the cursor are not skipped
editDeletePrevWord_WordOnly(l) ==
    LET oldPos == l.pos
        p2 == SkipWord(l.buf, l.pos)
        diff == U(oldPos - p2)
    IN  IF (p2 > 0 /\ ~IndexOK(p2 - 1))
           \/ ~(SliceOK(p2, MaxLine) /\ SliceOK(oldPos, l.editLen + 1))
        THEN Ended(l, "panic")
        ELSE Refreshed([l EXCEPT
                 !.buf = GoCopy(l.buf, p2, oldPos, l.editLen + 1),
                 !.pos = p2,
                 !.editLen = U(l.editLen - diff)])

editDeletePrevWord(l) ==
    LET oldPos == l.pos
        p1 == SkipSpaces(l.buf, l.pos)
        p2 == SkipWord(l.buf, p1)
        diff == U(oldPos - p2)
    IN  IF (p1 > 0 /\ ~IndexOK(p1 - 1)) \/ (p2 > 0 /\ ~IndexOK(p2 - 1))
           \/ ~(SliceOK(p2, MaxLine) /\ SliceOK(oldPos, l.editLen + 1))
        THEN Ended(l, "panic")
        ELSE Refreshed([l EXCEPT
                 !.buf = GoCopy(l.buf, p2, oldPos, l.editLen + 1),
                 !.pos = p2,
                 !.editLen = U(l.editLen - diff)])

\* case CTRL_T: swap the byte under the cursor with the previous one
CtrlT(l) ==
    IF l.pos > 0 /\ l.pos < l.editLen
    THEN IF ~IndexOK(l.pos)
         THEN Ended(l, "panic")
         ELSE Refreshed([l EXCEPT
                 !.buf = [l.buf EXCEPT ![l.pos - 1] = l.buf[l.pos],
                                       ![l.pos] = l.buf[l.pos - 1]],
                 !.pos = IF l.pos # U(l.editLen - 1) THEN U(l.pos + 1) ELSE l.pos])
    ELSE Ended(l, "ok")

\* case CTRL_U: delete the whole line
CtrlU(l) == Refreshed([l EXCEPT !.buf[0] = 0, !.pos = 0, !.editLen = 0])

\* case CTRL_K: delete from the cursor to the end of the line
CtrlK(l) ==
    IF ~IndexOK(l.pos)
    THEN Ended(l, "panic")
    ELSE Refreshed([l EXCEPT !.buf[l.pos] = 0, !.editLen = l.pos])

\* case CTRL_L: ClearScreen writes to stdout, then refreshLine
CtrlL(l) == Refreshed(l)

\* case CTRL_D on a non-empty line
CtrlD(l) == editDelete(l)

(***************************************************************************)
(* Pure parts of Readline, raw, enableRawMode, disableRawMode, getColumns. *)
(***************************************************************************)
\* bufio.Reader.ReadString('\n') with the error dropped: the bytes up to and
\* including the first line break, or all of them when the stream ends first
RECURSIVE ReadString(_)
ReadString(s) ==
    IF s = << >> THEN << >>
    ELSE IF Head(s) = 10 THEN << 10 >>
    ELSE << Head(s) >> \o ReadString(Tail(s))

noTTY(s) == ReadString(s)

\* raw.MakeRaw: the attributes after cfmakeraw
MakeRawAttr(a) == "raw"

\* variant: the flag is cleared, the attributes are not written back
disableRawMode_FlagOnly(tm) == [tm EXCEPT !.rawMode = FALSE]

\* disableRawMode on tm = [rawMode, tattr, termios]; TcSetAttr with a nil
\* termios fails and its error is dropped
disableRawMode(tm) ==
    IF ~tm.rawMode
    THEN tm
    ELSE [tm EXCEPT !.tattr = IF tm.termios = "nil" THEN tm.tattr ELSE tm.termios,
                    !.rawMode = FALSE]

\* variant: the test of the flag is inverted
CleanupMode_InvertedGuard(tm) == IF ~tm.rawMode THEN disableRawMode(tm) ELSE tm

\* Cleanup on tm = [rawMode, tattr, termios]
CleanupMode(tm) == IF tm.rawMode THEN disableRawMode(tm) ELSE tm

\* variant: the line is cut one byte short
ReadlineResult_ShortByOne(count, b, editLen) ==
    IF count = -1
    THEN [line |-> << >>, err |-> "EOF"]
    ELSE [line |-> BufString(b, IF editLen > 0 THEN editLen - 1 ELSE 0), err |-> "nil"]

\* Readline's return after raw(): count, the call's buffer and l.editLen
ReadlineResult(count, b, editLen) ==
    IF count = -1
    THEN [line |-> << >>, err |-> "EOF"]
    ELSE [line |-> BufString(b, editLen), err |-> "nil"]

\* getColumns: ioctlOk/wscol are the result of TIOCGWINSZ, start and cols the
\* two results of getCursorPosition (a value v, or a panic), wok whether the
\* write of ESC [ 999 C succeeds
Value(n) == [panic |-> FALSE, v |-> n]

Panicked == [panic |-> TRUE, v |-> 0]

getColumns(ioctlOk, wscol, start, wok, cols) ==
    IF ~ioctlOk \/ wscol = 0
    THEN IF start.panic THEN Panicked
         ELSE IF start.v = -1 THEN Value(DefaultCols)
         ELSE IF ~wok THEN Value(DefaultCols)
         ELSE IF cols.panic THEN Panicked
         ELSE IF cols.v = -1 THEN Value(DefaultCols)
         ELSE Value(U(cols.v))
    ELSE Value(wscol)

(***************************************************************************)
(* getCursorPosition: the read loop's guard and the parse of the reply.    *)
(* buf is make([]byte, 32), a function on 0..ProbeBufLen-1; i is the       *)
(* loop's index when it ends.                                              *)
(***************************************************************************)
ZeroReply == [j \in 0 .. ProbeBufLen - 1 |-> 0]

\* variant: the loop fills the whole buffer
ReadMore_WholeBuffer(i) == i < ProbeBufLen

\* for i < len(buf)-1
ReadMore(i) == i < ProbeBufLen - 1

\* string(buf[2:i])
ReplyBody(buf, i) == [j \in 1 .. i - 2 |-> buf[j + 1]]

MinOf(S) == CHOOSE x \in S : \A y \in S : x <= y

\* where strings.Split(s, ";") cuts s
SepsIn(s) == {j \in 1 .. Len(s) : s[j] = SEMICOLON}

\* strings.Split(s, ";")[1] when s holds a separator: the bytes between the
\* first separator and the next one, or the end of s
SecondField(s) ==
    LET a == MinOf(SepsIn(s))
        later == {j \in SepsIn(s) : j > a}
        b == IF later = {} THEN Len(s) + 1 ELSE MinOf(later)
    IN  SubSeq(s, a + 1, b - 1)

IsDigit(b) == b >= DIGIT_0 /\ b <= DIGIT_9

RECURSIVE DecimalValue(_)
DecimalValue(s) ==
    IF s = << >> THEN 0
    ELSE 10 * DecimalValue(SubSeq(s, 1, Len(s) - 1)) + (s[Len(s)] - DIGIT_0)

\* strconv.Atoi on the bytes a reply can hold (no sign among them)
Atoi(s) ==
    IF s # << >> /\ \A j \in 1 .. Len(s) : IsDigit(s[j])
    THEN [err |-> FALSE, v |-> DecimalValue(s)]
    ELSE [err |-> TRUE, v |-> 0]

\* getCursorPosition after its read loop: the prefix test, the split, els[1]
\* (index out of range when the body holds no separator), Atoi
ParseReply(buf, i) ==
    IF buf[0] # ESC \/ buf[1] # LBRACKET THEN Value(-1)
    ELSE IF ~(2 <= i /\ i <= ProbeBufLen) THEN Panicked
    ELSE LET s == ReplyBody(buf, i)
         IN  IF SepsIn(s) = {} THEN Panicked
             ELSE LET a == Atoi(SecondField(s))
                  IN  IF a.err THEN Value(-1) ELSE Value(a.v)

(***************************************************************************)
(* AddHistory and SetHistoryMaxLength on l.history: both bodies are empty. *)
(***************************************************************************)
AddHistory(h, line) == h

SetHistoryMaxLength(h, length) == h

(***************************************************************************)
(* Inputs of the model.                                                    *)
(***************************************************************************)
Callers == {1, 2}

\* len(prompt)
PromptLens == {0, 2}

\* ws.col as the window-size query reports it
WsCols == {0, 2, DefaultCols}

\* what getCursorPosition returns
ProbeResults == {Panicked} \cup {Value(n) : n \in {-1, 0, 1, 2}}

\* what stdin holds when Readline takes the buffered path
FallbackStreams == {<< >>, << 97 >>, << 97, 10 >>, << 10, 97 >>}

\* the bytes that may follow ESC: the recognized sequences, an unknown final
\* byte, another digit, a bad trailer, an unknown introducer
EscTails ==
    {<< LBRACKET, x >> : x \in {KEY_UP, KEY_DOWN, KEY_RIGHT, KEY_LEFT,
                                 KEY_HOME, KEY_END, 97}}
    \cup {<< LETTER_O, x >> : x \in {KEY_HOME, KEY_END, 97}}
    \cup {<< LBRACKET, DIGIT_3, TILDE >>, << LBRACKET, DIGIT_0, TILDE >>,
          << LBRACKET, DIGIT_3, 97 >>, << 97, 97 >>}

Prefixes(s) == {SubSeq(s, 1, n) : n \in 0 .. Len(s)}

Infixes(s) == {SubSeq(s, i, j) : i \in 1 .. Len(s), j \in 1 .. Len(s)} \ {<< >>}

\* what one Read of stdin may deliver at the top of the loop: a key alone, a
\* key with a fast-typed byte behind it, ESC with any part of a sequence
TopChunks(ks, tails) ==
    {<< k >> : k \in ks}
    \cup {<< k, 97 >> : k \in ks \cap InsertKeys}
    \cup (IF ESC \in ks
          THEN {<< ESC >> \o t : t \in UNION {Prefixes(s) : s \in tails}}
          ELSE {})

\* what one Read of stdin may deliver in the middle of an escape sequence
ContChunks(tails) == UNION {Infixes(s) : s \in tails}

\* the bytes a terminal's reply to the position query is made of, whole or
\* garbled: ESC, '[', ';', a digit, 'R'
ReplyBytes == {ESC, LBRACKET, SEMICOLON, DIGIT_3, LETTER_R}

\* the lines the application adds to the history
HistoryLines == {<< 97 >>, << 98 >>, << 99 >>}

\* len(prompt) and l.cols when refreshSingleLine runs: a prompt shorter than,
\* as long as and longer than a narrow window, and the default width
RefreshPrompts == {0, 1, 2, 3}

RefreshCols == {0, 1, 2, 3, DefaultCols}

\* the input sets a run draws from
FullInputs ==
    [keys |-> TopKeys, tails |-> EscTails, prompts |-> PromptLens,
     wscols |-> WsCols, probes |-> ProbeResults, streams |-> FallbackStreams,
     log |-> FALSE]

(***************************************************************************)
(* The editing loop's dispatch (switch c) and the escape-sequence table.   *)
(* lv is the LineNoise value with the buffer the command works on.         *)
(***************************************************************************)
\* the commands that index the parameter buf rather than l.buf
UsesLocalBuf(c) == c \in {CTRL_T, CTRL_K}

\* a first byte that is neither a terminal command nor ESC
Handle(lv, c, wok) ==
    CASE c \in {BACKSPACE, CTRL_H} -> editBackspace(lv)
      [] c = CTRL_D -> CtrlD(lv)
      [] c = CTRL_T -> CtrlT(lv)
      [] c = CTRL_B -> editMoveLeft(lv)
      [] c = CTRL_F -> editMoveRight(lv)
      [] c \in {CTRL_P, CTRL_N} -> editHistoryNext(lv)
      [] c = CTRL_U -> CtrlU(lv)
      [] c = CTRL_K -> CtrlK(lv)
      [] c = CTRL_A -> editMoveHome(lv)
      [] c = CTRL_E -> editMoveEnd(lv)
      [] c = CTRL_L -> CtrlL(lv)
      [] c = CTRL_W -> editDeletePrevWord(lv)
      [] OTHER -> editInsert(lv, c, wok)

\* whether a third byte is read: ESC [ digit
IsExtended(seq0, seq1) == seq0 = LBRACKET /\ seq1 >= DIGIT_0 /\ seq1 <= DIGIT_9

\* ESC seq0 seq1, not extended
EscCommand(lv, seq0, seq1) ==
    IF seq0 = LBRACKET
    THEN CASE seq1 \in {KEY_UP, KEY_DOWN} -> editHistoryNext(lv)
           [] seq1 = KEY_RIGHT -> editMoveRight(lv)
           [] seq1 = KEY_LEFT -> editMoveLeft(lv)
           [] seq1 = KEY_HOME -> editMoveHome(lv)
           [] seq1 = KEY_END -> editMoveEnd(lv)
           [] OTHER -> Ended(lv, "ok")
    ELSE IF seq0 = LETTER_O
    THEN CASE seq1 = KEY_HOME -> editMoveHome(lv)
           [] seq1 = KEY_END -> editMoveEnd(lv)
           [] OTHER -> Ended(lv, "ok")
    ELSE Ended(lv, "ok")

\* variant: any digit before '~' stands for the Delete key
ExtCommand_AnyDigit(lv, seq1, seq2) ==
    IF seq2 = TILDE THEN editDelete(lv) ELSE Ended(lv, "ok")

\* ESC [ seq1 seq2 with seq1 a digit
ExtCommand(lv, seq1, seq2) ==
    IF seq2 = TILDE /\ seq1 = DIGIT_3 THEN editDelete(lv) ELSE Ended(lv, "ok")

(***************************************************************************)
(* State.                                                                  *)
(***************************************************************************)
VARIABLES
    stdinTTY,   \* isatty(os.Stdin)
    stdoutTTY,  \* whether os.Stdout is a terminal
    term,       \* os.Getenv("TERM")
    threads,    \* the goroutines that call Readline on the editor
    overlap,    \* whether they call it without waiting for each other
    inputs,     \* the input sets this run draws from
    tattr,      \* the terminal's attributes
    termios,    \* l.termios: the saved attributes, "nil" before any query
    rawMode,    \* l.rawMode
    l,          \* l.pos, l.editLen, l.bufLen, l.plen, l.cols
    lbuf,       \* l.buf: the call whose buffer it refers to, 0 when nil
    bufs,       \* per call: the buffer Readline allocated
    pc,         \* per call: where the call stands
    prompt,     \* per call: len(prompt)
    rbuf,       \* per call: bytes the loop's bufio.Reader holds unread
    seq,        \* per call: the bytes read so far after ESC
    last,       \* per call: the command decoded last and the line it met, when logged
    count,      \* per call: what edit/raw returned
    result,     \* per call: what Readline returned
    exitPath,   \* per call: the return statement that ended the call
    cleanups,   \* Cleanup calls since the last Readline call, capped
    history,    \* l.history
    added,      \* the lines the application passed to AddHistory, in order
    maxLength,  \* the length the application asked for last
    win,        \* refreshSingleLine on its own: its arguments and its window
    probe       \* getColumns on its own: where it stands and what it holds

vars ==
    << stdinTTY, stdoutTTY, term, threads, overlap, inputs, tattr, termios, rawMode, l,
       lbuf, bufs, pc, prompt, rbuf, seq, last, count, result, exitPath, cleanups,
       history, added, maxLength, win, probe >>

\* what the operations exercised on their own work on
aside == << history, added, maxLength, win, probe >>

\* what a call of Readline never changes.  edit calls AddHistory(""), whose
\* body is empty: the history stays as it is
env == << stdinTTY, stdoutTTY, term, threads, overlap, inputs, aside >>

\* what a call of Readline works on
session ==
    << tattr, termios, rawMode, l, lbuf, bufs, pc, prompt, rbuf, seq, last, count,
       result, exitPath, cleanups >>

\* Cleanup calls counted before the counter stops
MaxCleanups == 2

ZeroBuf == [i \in 0 .. MaxLine - 1 |-> 0]

NoResult == [line |-> << >>, err |-> "none"]

NoCommand == [cmd |-> << >>, pos |-> 0, content |-> << >>]

\* refreshSingleLine not called yet, on the line (pos, len) with a prompt of
\* plen bytes in a window of cols columns
NoWindow ==
    [called |-> FALSE, plen |-> 0, pos |-> 0, len |-> 0, cols |-> 0, st |-> "none",
     bi |-> 0, vpos |-> 0, vlen |-> 0]

\* getColumns not called yet
NoProbe ==
    [pc |-> "idle", phase |-> 0, start |-> 0, buf |-> ZeroReply, i |-> 0,
     reads |-> 0, rfail |-> FALSE, failed |-> FALSE, ret |-> 0]

WithBuf(lr, b) ==
    [buf |-> b, pos |-> lr.pos, editLen |-> lr.editLen, bufLen |-> lr.bufLen,
     plen |-> lr.plen, cols |-> lr.cols]

Strip(lv) ==
    [pos |-> lv.pos, editLen |-> lv.editLen, bufLen |-> lv.bufLen,
     plen |-> lv.plen, cols |-> lv.cols]

\* New(): every field at its zero value
InitSession ==
    /\ stdinTTY \in BOOLEAN
    /\ stdoutTTY \in BOOLEAN
    /\ term \in Terms
    /\ tattr = "cooked"
    /\ termios = "nil"
    /\ rawMode = FALSE
    /\ l = [pos |-> 0, editLen |-> 0, bufLen |-> 0, plen |-> 0, cols |-> 0]
    /\ lbuf = 0
    /\ bufs = [p \in Callers |-> ZeroBuf]
    /\ pc = [p \in Callers |-> "idle"]
    /\ prompt = [p \in Callers |-> 0]
    /\ rbuf = [p \in Callers |-> << >>]
    /\ seq = [p \in Callers |-> << >>]
    /\ last = [p \in Callers |-> NoCommand]
    /\ count = [p \in Callers |-> 0]
    /\ result = [p \in Callers |-> NoResult]
    /\ exitPath = [p \in Callers |-> "none"]
    /\ cleanups = 0
    /\ history = << >>
    /\ added = << >>
    /\ maxLength = HistoryMaxLength
    /\ probe = NoProbe

InitCommon ==
    /\ InitSession
    /\ win = NoWindow

\* one goroutine owns the editor, as in main
Init ==
    /\ InitCommon
    /\ threads = {1}
    /\ overlap = FALSE
    /\ inputs = FullInputs

\* the used content of l.buf
Content == [i \in 1 .. l.editLen |-> bufs[lbuf][i - 1]]

\* the log entry for the bytes cmd: the cursor and the content they met
Logged(cmd) ==
    IF inputs.log THEN [cmd |-> cmd, pos |-> l.pos, content |-> Content] ELSE NoCommand

\* a panic ends the process
Alive == \A q \in Callers : pc[q] # "panic"

(***************************************************************************)
(* Actions.                                                                *)
(***************************************************************************)
\* edit returns cnt through the return statement `path`; raw goes on to
\* disableRawMode
EditReturns(p, cnt, path) ==
    /\ pc' = [pc EXCEPT ![p] = "disable"]
    /\ count' = [count EXCEPT ![p] = cnt]
    /\ exitPath' = [exitPath EXCEPT ![p] = path]

\* the state after the command cmd: r is what the command yielded, x the call
\* whose buffer it worked on, rest what the reader still holds
After(p, cmd, r, x, rest) ==
    /\ bufs' = [bufs EXCEPT ![x] = r.l.buf]
    /\ l' = Strip(r.l)
    /\ rbuf' = [rbuf EXCEPT ![p] = rest]
    /\ seq' = [seq EXCEPT ![p] = << >>]
    /\ last' = [last EXCEPT ![p] = Logged(cmd)]
    /\ IF r.st = "ok"
       THEN /\ pc' = [pc EXCEPT ![p] = "loop"]
            /\ UNCHANGED << count, exitPath >>
       ELSE IF r.st = "werr"
       THEN EditReturns(p, -1, "writefail")
       ELSE /\ pc' = [pc EXCEPT ![p] = r.st]
            /\ UNCHANGED << count, exitPath >>
    /\ UNCHANGED << env, tattr, termios, rawMode, lbuf, prompt, result, cleanups >>

\* Readline up to the call of raw: the two buffered paths return at once
Readline(p) ==
    /\ Alive
    /\ p \in threads
    /\ pc[p] \in {"idle", "done"}
    /\ overlap \/ \A q \in Callers \ {p} : pc[q] \in {"idle", "done"}
    /\ cleanups' = 0
    /\ count' = [count EXCEPT ![p] = 0]
    /\ \E pl \in inputs.prompts, s \in inputs.streams :
        /\ prompt' = [prompt EXCEPT ![p] = pl]
        /\ IF ~stdinTTY
           THEN /\ result' = [result EXCEPT ![p] = [line |-> noTTY(s), err |-> "nil"]]
                /\ exitPath' = [exitPath EXCEPT ![p] = "notty"]
                /\ pc' = [pc EXCEPT ![p] = "done"]
                /\ UNCHANGED bufs
           ELSE IF isUnsupportedTerm(term)
           THEN /\ result' = [result EXCEPT ![p] = [line |-> ReadString(s), err |-> "nil"]]
                /\ exitPath' = [exitPath EXCEPT ![p] = "unsupported"]
                /\ pc' = [pc EXCEPT ![p] = "done"]
                /\ UNCHANGED bufs
           ELSE /\ result' = [result EXCEPT ![p] = NoResult]
                /\ exitPath' = [exitPath EXCEPT ![p] = "none"]
                /\ bufs' = [bufs EXCEPT ![p] = ZeroBuf]
                /\ pc' = [pc EXCEPT ![p] = "enable"]
    /\ last' = [last EXCEPT ![p] = NoCommand]
    /\ UNCHANGED << env, tattr, termios, rawMode, l, lbuf, rbuf, seq >>

\* enableRawMode, first half: l.termios, err = raw.TcGetAttr(fd)
TcGetAttr(p) ==
    /\ Alive
    /\ pc[p] = "enable"
    /\ \E ok \in BOOLEAN :
        IF ok
        THEN /\ termios' = tattr
             /\ pc' = [pc EXCEPT ![p] = "makeraw"]
             /\ UNCHANGED << count, exitPath >>
        ELSE /\ termios' = "nil"
             /\ pc' = [pc EXCEPT ![p] = "ret"]
             /\ count' = [count EXCEPT ![p] = -1]
             /\ exitPath' = [exitPath EXCEPT ![p] = "enablefail"]
    /\ UNCHANGED << env, tattr, rawMode, l, lbuf, bufs, prompt, rbuf, seq, last,
                    result, cleanups >>

\* enableRawMode, second half: raw.MakeRaw(fd), then l.rawMode = true
MakeRaw(p) ==
    /\ Alive
    /\ pc[p] = "makeraw"
    /\ \E ok \in BOOLEAN :
        IF ok
        THEN /\ tattr' = MakeRawAttr(tattr)
             /\ rawMode' = TRUE
             /\ pc' = [pc EXCEPT ![p] = "edit"]
             /\ UNCHANGED << count, exitPath >>
        ELSE /\ pc' = [pc EXCEPT ![p] = "ret"]
             /\ count' = [count EXCEPT ![p] = -1]
             /\ exitPath' = [exitPath EXCEPT ![p] = "enablefail"]
             /\ UNCHANGED << tattr, rawMode >>
    /\ UNCHANGED << env, termios, l, lbuf, bufs, prompt, rbuf, seq, last, result,
                    cleanups >>

\* what getColumns may return in this run: the window-size query fails when
\* stdout is no terminal
ColumnResults ==
    {getColumns(ioctlOk /\ stdoutTTY, wscol, start, wok, cs) :
        ioctlOk \in BOOLEAN, wscol \in inputs.wscols, start \in inputs.probes,
        wok \in BOOLEAN, cs \in inputs.probes}

\* edit up to its loop: the fields are reset, the width is probed, the prompt
\* is written
EditInit(p) ==
    /\ Alive
    /\ pc[p] = "edit"
    /\ \E c \in ColumnResults, pok \in BOOLEAN :
            /\ lbuf' = p
            /\ IF c.panic
               THEN /\ l' = [pos |-> 0, editLen |-> 0, bufLen |-> 0,
                             plen |-> prompt[p], cols |-> l.cols]
                    /\ pc' = [pc EXCEPT ![p] = "panic"]
                    /\ UNCHANGED << bufs, count, exitPath >>
               ELSE /\ l' = [pos |-> 0, editLen |-> 0, bufLen |-> U(0 - 1),
                             plen |-> prompt[p], cols |-> c.v]
                    /\ bufs' = [bufs EXCEPT ![p][0] = 0]
                    /\ IF pok
                       THEN /\ pc' = [pc EXCEPT ![p] = "loop"]
                            /\ UNCHANGED << count, exitPath >>
                       ELSE EditReturns(p, -1, "promptfail")
    /\ UNCHANGED << env, tattr, termios, rawMode, prompt, rbuf, seq, last, result,
                    cleanups >>

\* one turn of the loop: a new bufio.Reader, ReadByte, switch c
ReadKey(p) ==
    /\ Alive
    /\ pc[p] = "loop"
    /\ \E ch \in TopChunks(inputs.keys, inputs.tails) \cup {<< >>} :
        IF ch = << >>
        THEN /\ EditReturns(p, l.editLen, "readfail")
             /\ rbuf' = [rbuf EXCEPT ![p] = << >>]
             /\ UNCHANGED << env, tattr, termios, rawMode, l, lbuf, bufs, prompt,
                             seq, last, result, cleanups >>
        ELSE LET c == Head(ch)
                 x == IF UsesLocalBuf(c) THEN p ELSE lbuf
             IN  IF c = ENTER \/ c = CTRL_C \/ (c = CTRL_D /\ l.editLen = 0)
                 THEN /\ EditReturns(p,
                            IF c = ENTER THEN l.editLen ELSE -1,
                            IF c = ENTER THEN "submit"
                            ELSE IF c = CTRL_C THEN "interrupt" ELSE "eof")
                      /\ rbuf' = [rbuf EXCEPT ![p] = Tail(ch)]
                      /\ last' = [last EXCEPT ![p] = Logged(<< c >>)]
                      /\ UNCHANGED << env, tattr, termios, rawMode, l, lbuf, bufs,
                                      prompt, seq, result, cleanups >>
                 ELSE IF c = ESC
                 THEN /\ pc' = [pc EXCEPT ![p] = "seq0"]
                      /\ rbuf' = [rbuf EXCEPT ![p] = Tail(ch)]
                      /\ UNCHANGED << env, tattr, termios, rawMode, l, lbuf, bufs,
                                      prompt, seq, last, count, result, exitPath,
                                      cleanups >>
                 ELSE \E wok \in BOOLEAN :
                        After(p, << c >>, Handle(WithBuf(l, bufs[x]), c, wok), x, Tail(ch))

\* what ReadByte yields inside a sequence: the reader's next byte, or the
\* outcome of one more Read (<< >> when it fails)
Reads(p) ==
    IF rbuf[p] # << >> THEN {rbuf[p]} ELSE ContChunks(inputs.tails) \cup {<< >>}

\* a failed read inside a sequence: break, back to the top of the loop; the
\* truncated sequence is all that was decoded
SeqAborted(p) ==
    /\ pc' = [pc EXCEPT ![p] = "loop"]
    /\ seq' = [seq EXCEPT ![p] = << >>]
    /\ last' = [last EXCEPT ![p] = Logged(<< ESC >> \o seq[p])]
    /\ UNCHANGED << env, tattr, termios, rawMode, l, lbuf, bufs, prompt, rbuf,
                    count, result, exitPath, cleanups >>

\* seq0, err := r.ReadByte()
ReadSeq0(p) ==
    /\ Alive
    /\ pc[p] = "seq0"
    /\ \E ch \in Reads(p) :
        IF ch = << >>
        THEN SeqAborted(p)
        ELSE /\ pc' = [pc EXCEPT ![p] = "seq1"]
             /\ seq' = [seq EXCEPT ![p] = << Head(ch) >>]
             /\ rbuf' = [rbuf EXCEPT ![p] = Tail(ch)]
             /\ UNCHANGED << env, tattr, termios, rawMode, l, lbuf, bufs, prompt,
                             last, count, result, exitPath, cleanups >>

\* seq1, err := r.ReadByte(), then the two-byte table
ReadSeq1(p) ==
    /\ Alive
    /\ pc[p] = "seq1"
    /\ \E ch \in Reads(p) :
        IF ch = << >>
        THEN SeqAborted(p)
        ELSE IF IsExtended(seq[p][1], Head(ch))
        THEN /\ pc' = [pc EXCEPT ![p] = "seq2"]
             /\ seq' = [seq EXCEPT ![p] = Append(seq[p], Head(ch))]
             /\ rbuf' = [rbuf EXCEPT ![p] = Tail(ch)]
             /\ UNCHANGED << env, tattr, termios, rawMode, l, lbuf, bufs, prompt,
                             last, count, result, exitPath, cleanups >>
        ELSE After(p, << ESC, seq[p][1], Head(ch) >>,
                   EscCommand(WithBuf(l, bufs[lbuf]), seq[p][1], Head(ch)),
                   lbuf, Tail(ch))

\* seq2, err := r.ReadByte(), then the extended table
ReadSeq2(p) ==
    /\ Alive
    /\ pc[p] = "seq2"
    /\ \E ch \in Reads(p) :
        IF ch = << >>
        THEN SeqAborted(p)
        ELSE After(p, << ESC, seq[p][1], seq[p][2], Head(ch) >>,
                   ExtCommand(WithBuf(l, bufs[lbuf]), seq[p][2], Head(ch)),
                   lbuf, Tail(ch))

\* raw: l.disableRawMode(fd) after edit returned
DisableRawMode(p) ==
    /\ Alive
    /\ pc[p] = "disable"
    /\ LET tm == disableRawMode([rawMode |-> rawMode, tattr |-> tattr,
                                 termios |-> termios])
       IN  /\ rawMode' = tm.rawMode
           /\ tattr' = tm.tattr
           /\ termios' = tm.termios
    /\ pc' = [pc EXCEPT ![p] = "ret"]
    /\ UNCHANGED << env, l, lbuf, bufs, prompt, rbuf, seq, last, count, result,
                    exitPath, cleanups >>

\* Readline's return statement after raw
ReadlineReturn(p) ==
    /\ Alive
    /\ pc[p] = "ret"
    /\ IF count[p] # -1 /\ ~SliceOK(0, l.editLen)
       THEN /\ pc' = [pc EXCEPT ![p] = "panic"]
            /\ UNCHANGED result
       ELSE /\ pc' = [pc EXCEPT ![p] = "done"]
            /\ result' = [result EXCEPT ![p] = ReadlineResult(count[p], bufs[p], l.editLen)]
    /\ UNCHANGED << env, tattr, termios, rawMode, l, lbuf, bufs, prompt, rbuf, seq,
                    last, count, exitPath, cleanups >>

\* Cleanup, called by the owner between calls or deferred past a panic
Cleanup(p) ==
    /\ p \in threads
    /\ pc[p] \in {"idle", "done", "panic"}
    /\ overlap \/ \A q \in Callers \ {p} : pc[q] \in {"idle", "done", "panic"}
    /\ cleanups < MaxCleanups
    /\ cleanups' = cleanups + 1
    /\ LET tm == CleanupMode([rawMode |-> rawMode, tattr |-> tattr,
                              termios |-> termios])
       IN  /\ rawMode' = tm.rawMode
           /\ tattr' = tm.tattr
           /\ termios' = tm.termios
    /\ UNCHANGED << env, l, lbuf, bufs, pc, prompt, rbuf, seq, last, count, result,
                    exitPath >>

Next ==
    \E p \in Callers :
        \/ Readline(p)
        \/ TcGetAttr(p)
        \/ MakeRaw(p)
        \/ EditInit(p)
        \/ ReadKey(p)
        \/ ReadSeq0(p)
        \/ ReadSeq1(p)
        \/ ReadSeq2(p)
        \/ DisableRawMode(p)
        \/ ReadlineReturn(p)
        \/ Cleanup(p)

Spec == Init /\ [][Next]_vars

(***************************************************************************)
(* Two goroutines use the same editor; the terminal sends ENTER, Ctrl-C,   *)
(* Ctrl-D and the Delete key, on a window 80 columns wide.                 *)
(***************************************************************************)
NarrowInputs ==
    [keys |-> {ENTER, CTRL_C, CTRL_D, ESC},
     tails |-> {<< LBRACKET, DIGIT_3, TILDE >>},
     prompts |-> {0},
     wscols |-> {DefaultCols},
     probes |-> {Value(-1)},
     streams |-> {<< 10 >>},
     log |-> FALSE]

\* the goroutines take turns: a call starts when no other is in flight; the
\* terminal sends 'a' as well
InitSeq ==
    /\ InitCommon
    /\ threads = Callers
    /\ overlap = FALSE
    /\ inputs = [NarrowInputs EXCEPT !.keys = @ \cup {97}]

SpecSeq == InitSeq /\ [][Next]_vars

\* the goroutines call Readline whenever they like
InitConc ==
    /\ InitCommon
    /\ threads = Callers
    /\ overlap = TRUE
    /\ inputs = NarrowInputs

SpecConc == InitConc /\ [][Next]_vars

(***************************************************************************)
(* One goroutine edits on a terminal 80 columns wide with an empty prompt; *)
(* every key but NUL may arrive, and after ESC the Delete key, two cursor  *)
(* keys and the sequences the decoder does not know; the decoded commands  *)
(* are logged.                                                             *)
(***************************************************************************)
EditTails ==
    {<< LBRACKET, DIGIT_3, TILDE >>, << LBRACKET, KEY_LEFT >>,
     << LETTER_O, KEY_HOME >>, << LBRACKET, 97 >>, << LETTER_O, 97 >>,
     << LBRACKET, DIGIT_0, TILDE >>, << LBRACKET, DIGIT_3, 97 >>, << 97, 97 >>}

InitEdit ==
    /\ InitCommon
    /\ stdinTTY
    /\ stdoutTTY
    /\ term = "xterm"
    /\ threads = {1}
    /\ overlap = FALSE
    /\ inputs = [FullInputs EXCEPT !.prompts = {0}, !.wscols = {DefaultCols},
                                   !.probes = {Value(-1)}, !.streams = {<< 10 >>},
                                   !.keys = TopKeys \ {0}, !.tails = EditTails,
                                   !.log = TRUE]

SpecEdit == InitEdit /\ [][Next]_vars

\* the environment of a call
world == << stdinTTY, stdoutTTY, term, threads, overlap, inputs >>

\* one goroutine on a terminal, before any call of Readline
OwnerOnTerminal ==
    /\ stdinTTY
    /\ term = "xterm"
    /\ threads = {1}
    /\ overlap = FALSE
    /\ inputs = FullInputs

(***************************************************************************)
(* The history: the application sets a maximum length and adds lines       *)
(* between its calls of Readline.                                          *)
(***************************************************************************)
\* l.AddHistory(line)
CallAddHistory(p) ==
    /\ p \in threads
    /\ pc[p] \in {"idle", "done"}
    /\ Len(added) < MaxAdds
    /\ \E line \in HistoryLines :
        /\ history' = AddHistory(history, line)
        /\ added' = Append(added, line)
    /\ UNCHANGED << world, session, maxLength, win, probe >>

\* l.SetHistoryMaxLength(n)
CallSetHistoryMaxLength(p) ==
    /\ p \in threads
    /\ pc[p] \in {"idle", "done"}
    /\ \E n \in 1 .. MaxHistory :
        /\ history' = SetHistoryMaxLength(history, n)
        /\ maxLength' = n
    /\ UNCHANGED << world, session, added, win, probe >>

NextHist == \E p \in Callers : CallAddHistory(p) \/ CallSetHistoryMaxLength(p)

InitHist ==
    /\ InitCommon
    /\ OwnerOnTerminal
    /\ stdoutTTY

SpecHist == InitHist /\ [][NextHist]_vars

(***************************************************************************)
(* refreshSingleLine on every line the buffer can hold, every cursor in    *)
(* it, prompts of 0 to 3 bytes and windows of 0 to 3 and of 80 columns.    *)
(***************************************************************************)
RefreshArgs ==
    {[NoWindow EXCEPT !.plen = a, !.pos = b, !.len = c, !.cols = d] :
        a \in RefreshPrompts, b \in 0 .. MaxLine - 1, c \in 0 .. MaxLine - 1,
        d \in RefreshCols}

InitRefresh ==
    /\ InitSession
    /\ OwnerOnTerminal
    /\ stdoutTTY
    /\ win \in {w \in RefreshArgs : w.pos <= w.len}

\* the two loops, then the slice l.buf[bi:bi+editLen] and the cursor offset
RefreshSingleLine ==
    /\ ~win.called
    /\ LET w == RefreshWindow(win.plen, win.pos, win.len, win.cols)
       IN  win' = [win EXCEPT
                    !.called = TRUE,
                    !.st = refreshSingleLine(win.plen, win.pos, win.len, win.cols),
                    !.bi = w.bi,
                    !.vpos = w.pos,
                    !.vlen = w.len]
    /\ UNCHANGED << world, session, history, added, maxLength, probe >>

NextRefresh == RefreshSingleLine

SpecRefresh == InitRefresh /\ [][NextRefresh]_vars

(***************************************************************************)
(* getColumns step by step: the window-size query, then, when it fails or  *)
(* reports zero, getCursorPosition twice, each with its write of the       *)
(* query, its read loop of one byte a turn and its parse.                  *)
(***************************************************************************)
\* getColumns once getCursorPosition has returned v
AfterPosition(pr, v) ==
    IF pr.phase = 1 /\ ~v.panic /\ v.v # -1
    THEN [pr EXCEPT !.pc = "margin", !.start = v.v]
    ELSE LET r == IF pr.phase = 1
                  THEN getColumns(FALSE, 0, v, TRUE, v)
                  ELSE getColumns(FALSE, 0, Value(pr.start), TRUE, v)
         IN  [pr EXCEPT !.pc = IF r.panic THEN "panic" ELSE "done", !.ret = r.v]

\* syscall TIOCGWINSZ
GetColumns ==
    /\ probe.pc = "idle"
    /\ \E ioctlOk \in BOOLEAN, wscol \in inputs.wscols :
        IF (ioctlOk /\ stdoutTTY) /\ wscol # 0
        THEN probe' = [probe EXCEPT
                        !.pc = "done",
                        !.ret = getColumns(TRUE, wscol, Value(-1), TRUE, Value(-1)).v]
        ELSE probe' = [probe EXCEPT !.pc = "query", !.phase = 1]
    /\ UNCHANGED << world, session, history, added, maxLength, win >>

\* getCursorPosition: out.Write(ESC [ 6 n), i := 0, buf := make([]byte, 32)
GetCursorPositionWrite ==
    /\ probe.pc = "query"
    /\ \E wok \in BOOLEAN :
        IF wok
        THEN probe' = [probe EXCEPT !.pc = "read", !.buf = ZeroReply, !.i = 0,
                                    !.reads = 0, !.rfail = FALSE]
        ELSE probe' = AfterPosition([probe EXCEPT !.failed = TRUE], Value(-1))
    /\ UNCHANGED << world, session, history, added, maxLength, win >>

\* one turn of the read loop: the guard, in.Read(buf[i:i+1]) (-1 stands for
\* n != 1), the test for 'R', i++
GetCursorPositionRead ==
    /\ probe.pc = "read"
    /\ IF ~ReadMore(probe.i)
       THEN probe' = [probe EXCEPT !.pc = "parse"]
       ELSE \E r \in ReplyBytes \cup {-1} :
               IF r = -1
               THEN probe' = [probe EXCEPT !.pc = "parse", !.rfail = TRUE,
                                           !.failed = TRUE]
               ELSE probe' = [probe EXCEPT
                               !.buf[probe.i] = r,
                               !.reads = probe.reads + 1,
                               !.i = IF r = LETTER_R THEN probe.i ELSE probe.i + 1,
                               !.pc = IF r = LETTER_R THEN "parse" ELSE "read"]
    /\ UNCHANGED << world, session, history, added, maxLength, win >>

\* the parse of the reply, and getColumns on what it yields
GetCursorPositionParse ==
    /\ probe.pc = "parse"
    /\ probe' = AfterPosition(probe, ParseReply(probe.buf, probe.i))
    /\ UNCHANGED << world, session, history, added, maxLength, win >>

\* getColumns between the two probes: out.Write(ESC [ 999 C)
GetColumnsMargin ==
    /\ probe.pc = "margin"
    /\ \E wok \in BOOLEAN :
        IF wok
        THEN probe' = [probe EXCEPT !.pc = "query", !.phase = 2]
        ELSE probe' = [probe EXCEPT
                        !.pc = "done",
                        !.failed = TRUE,
                        !.ret = getColumns(FALSE, 0, Value(probe.start), FALSE,
                                           Value(-1)).v]
    /\ UNCHANGED << world, session, history, added, maxLength, win >>

NextProbe ==
    \/ GetColumns
    \/ GetCursorPositionWrite
    \/ GetCursorPositionRead
    \/ GetCursorPositionParse
    \/ GetColumnsMargin

InitProbe ==
    /\ InitCommon
    /\ OwnerOnTerminal

SpecProbe == InitProbe /\ [][NextProbe]_vars

(***************************************************************************)
(* Properties.                                                             *)
(***************************************************************************)
\* the return statements of edit, all reached after raw mode was entered
EditExits == {"submit", "interrupt", "eof", "readfail", "promptfail", "writefail"}

\* the positions of a call that is inside raw(): enableRawMode was called
RawPcs ==
    {"enable", "makeraw", "edit", "loop", "seq0", "seq1", "seq2", "disable",
     "ret", "panic", "hang"}

\* a call that can still take commands or return
Running(p) == pc[p] \in {"loop", "seq0", "seq1", "seq2", "disable", "ret", "done"}

\* C1: in every state of an editing session, whatever bytes were fed and
\* whatever command was applied last, 0 <= pos <= editLen <= capacity.
C1_CursorWithinLength ==
    /\ 0 <= l.pos
    /\ l.pos <= l.editLen
    /\ l.editLen <= MaxLine

\* commands were applied: the line is as long as the loop lets it get, with
\* the cursor inside it
C1_Witness ==
    /\ pc[1] = "loop"
    /\ l.editLen = MaxLine - 1
    /\ l.pos = 1
    /\ bufs[1][0] = SPACE

\* C2: when the buffer is full (length == capacity) an insert is a silent
\* no-op and the session goes on taking commands: a call whose line has
\* reached the capacity is still running.
C2_FullBufferKeepsAccepting ==
    \A p \in Callers : (lbuf = p /\ l.editLen = MaxLine) => Running(p)

\* C3: when a call that went through the editing loop is about to return or
\* has returned, by any of edit's return statements, the raw-mode flag is
\* false and the terminal has the attributes saved on entry.
C3_RestoredBeforeReturn ==
    \A p \in Callers :
        (pc[p] \in {"ret", "done"} /\ exitPath[p] \in EditExits)
            => (rawMode = FALSE /\ termios # "nil" /\ tattr = termios)

\* a call left the loop on a failed write of an inserted byte and is back in
\* Readline with the terminal restored
C3_Witness ==
    /\ pc[1] = "ret"
    /\ exitPath[1] = "writefail"
    /\ tattr = "cooked"

\* C4: the (line, error) pair Readline returns for Ctrl-C is never the pair
\* it returns for Ctrl-D on an empty line.
C4_InterruptDistinctFromEndOfInput ==
    \A p \in Callers, q \in Callers :
        (/\ pc[p] = "done" /\ exitPath[p] = "interrupt"
         /\ pc[q] = "done" /\ exitPath[q] = "eof")
            => result[p] # result[q]

\* C5: a call ended by a failed read returns an end-of-input error, which is
\* not what a submit of the same content returns.
C5_ReadFailureIsEndOfInput ==
    \A p \in Callers :
        (pc[p] = "done" /\ exitPath[p] = "readfail")
            => /\ result[p].err = "EOF"
               /\ result[p] # [line |-> Content, err |-> "nil"]

\* C6: ENTER changes neither the content nor the cursor, nothing changes them
\* between ENTER and Readline's return, and Readline returns the content
\* buf[0..editLen) with no error.
C6_SubmitReturnsContent ==
    [][\A p \in Callers :
        /\ (pc[p] = "loop" /\ exitPath'[p] = "submit")
              => (l' = l /\ bufs' = bufs /\ lbuf' = lbuf)
        /\ (pc[p] \in {"disable", "ret"} /\ exitPath[p] = "submit")
              => (l' = l /\ bufs' = bufs /\ lbuf' = lbuf)
        /\ (pc[p] = "ret" /\ exitPath[p] = "submit" /\ pc'[p] = "done")
              => result'[p] = [line |-> Content, err |-> "nil"]]_vars

\* a line of two different bytes was typed, submitted and returned
C6_Witness ==
    /\ pc[1] = "done"
    /\ exitPath[1] = "submit"
    /\ result[1] = [line |-> << SPACE, 97 >>, err |-> "nil"]

\* C7: when enableRawMode fails, Readline returns a line with no error.
C7_EnableFailureFallsBack ==
    \A p \in Callers :
        (pc[p] = "done" /\ exitPath[p] = "enablefail") => result[p].err = "nil"

\* the line a buffered read up to a line break returns on stream s
UpToLineBreak(line, s) ==
    /\ Len(line) <= Len(s)
    /\ \A i \in 1 .. Len(line) : line[i] = s[i]
    /\ \A i \in 1 .. Len(line) - 1 : line[i] # 10
    /\ Len(line) < Len(s) => (Len(line) > 0 /\ line[Len(line)] = 10)

\* no call has touched the terminal or is inside raw(), and every call that
\* returned returned a buffered line with no error
BufferedOnly ==
    /\ tattr = "cooked"
    /\ termios = "nil"
    /\ rawMode = FALSE
    /\ \A p \in Callers :
        /\ pc[p] \notin RawPcs
        /\ pc[p] = "done"
              => /\ result[p].err = "nil"
                 /\ \E s \in inputs.streams : UpToLineBreak(result[p].line, s)

\* C8, as stated: with TERM unset or unsupported, or stdin or stdout not a
\* terminal, raw mode is never attempted and a buffered line is returned.
C8_NoRawModeUnlessBothTerminals ==
    (term \in {"", "dumb", "cons25", "emacs"} \/ ~stdinTTY \/ ~stdoutTTY)
        => BufferedOnly

\* C8, amended: with TERM unset or unsupported, or stdin not a terminal, raw
\* mode is never attempted and a buffered line is returned.
C8_NoRawModeUnlessStdinTerminal ==
    (term \in {"", "dumb", "cons25", "emacs"} \/ ~stdinTTY) => BufferedOnly

\* on a terminal with TERM unset a call returned the buffered line
C8_Witness ==
    /\ stdinTTY
    /\ term = ""
    /\ pc[1] = "done"
    /\ result[1] = [line |-> << 97, 10 >>, err |-> "nil"]

\* C9: with calls overlapping, the saved attributes are never the raw-mode
\* ones, and with every call returned the terminal is in its original mode.
C9_ReentrantCallLeavesTerminalAlone ==
    /\ termios # "raw"
    /\ (\A p \in Callers : pc[p] \in {"idle", "done"}) => tattr = "cooked"

\* C10: Cleanup, or disableRawMode, with the raw-mode flag false changes
\* neither the terminal's attributes nor the saved ones; and after any calls
\* of Readline, however they ended, once Cleanup has run the flag is false
\* and the terminal has the attributes saved by the last enter.
C10_CleanupIdempotent ==
    [][/\ (~rawMode /\ \E p \in Callers : Cleanup(p) \/ DisableRawMode(p))
            => (tattr' = tattr /\ termios' = termios /\ rawMode' = rawMode)
       /\ (cleanups' > 0 /\ termios' # "nil")
            => (rawMode' = FALSE /\ tattr' = termios')]_vars

\* Cleanup ran twice after a call that panicked in raw mode
C10_Witness ==
    /\ pc[1] = "panic"
    /\ cleanups = 2
    /\ rawMode = FALSE
    /\ tattr = "cooked"
    /\ termios = "cooked"

(***************************************************************************)
(* Properties of the commands, stated on the log: last[p] holds the bytes  *)
(* of the command decoded last with the cursor and the content it met, and *)
(* l, bufs hold what it left.                                              *)
(***************************************************************************)
\* the line is what the command met
LineUntouched(p) ==
    /\ Content = last[p].content
    /\ l.editLen = Len(last[p].content)
    /\ l.pos = last[p].pos

\* where a word deletion from cursor c stops: back over the spaces before c,
\* then back over the non-spaces before those
WordStart(old, c) ==
    CHOOSE n \in 0 .. c :
        \E m \in n .. c :
            /\ \A i \in m + 1 .. c : old[i] = SPACE
            /\ m = 0 \/ old[m] # SPACE
            /\ \A i \in n + 1 .. m : old[i] # SPACE
            /\ n = 0 \/ old[n] = SPACE

\* C14: after Ctrl-W with the cursor at c on the content old, with n the
\* offset reached from c by skipping back over spaces and then over
\* non-spaces, the content is old[0..n) ++ old[c..length), the cursor is n
\* and the length is the old length less c - n.
C14_DeletePrevWord ==
    \A p \in threads :
        last[p].cmd = << CTRL_W >>
            => LET old == last[p].content
                   c == last[p].pos
                   n == WordStart(old, c)
               IN  /\ Content = SubSeq(old, 1, n) \o SubSeq(old, c + 1, Len(old))
                   /\ l.pos = n
                   /\ l.editLen = Len(old) - (c - n)

\* Ctrl-W met "a " with the cursor at the end and left the empty line
C14_Witness ==
    /\ pc[1] = "loop"
    /\ last[1] = [cmd |-> << CTRL_W >>, pos |-> 2, content |-> << 97, SPACE >>]
    /\ l.pos = 0
    /\ l.editLen = 0

\* the bytes that delete backward, and the key and sequence that delete forward
BackspaceCmds == {<< BACKSPACE >>, << CTRL_H >>}

DeleteCmds == {<< CTRL_D >>, << ESC, LBRACKET, DIGIT_3, TILDE >>}

\* C15: backspace with the cursor at 0, and forward delete with the cursor at
\* the end of a line, leave content, length and cursor as they were, and the
\* session goes on.
C15_DeleteAtEdgeIsNoOp ==
    \A p \in threads :
        (\/ last[p].cmd \in BackspaceCmds /\ last[p].pos = 0
         \/ /\ last[p].cmd \in DeleteCmds
            /\ last[p].pos = Len(last[p].content)
            /\ last[p].content # << >>)
            => (LineUntouched(p) /\ pc[p] \notin {"panic", "hang"})

\* backspace met a line of two bytes with the cursor at 0 and left it
C15_Witness ==
    /\ pc[1] = "loop"
    /\ last[1] = [cmd |-> << BACKSPACE >>, pos |-> 0, content |-> << 97, SPACE >>]
    /\ l.pos = 0
    /\ l.editLen = 2
    /\ bufs[1][0] = 97

\* C16: an insert of ch with the cursor at c on a line shorter than the
\* capacity ends with content old[0..c) ++ <ch> ++ old[c..length), the
\* length one more and the cursor at c + 1, without a crash.
C16_InsertBelowCapacity ==
    \A p \in threads :
        (/\ Len(last[p].cmd) = 1
         /\ last[p].cmd[1] \notin ControlKeys
         /\ Len(last[p].content) < MaxLine)
            => LET old == last[p].content
                   c == last[p].pos
               IN  /\ Content = SubSeq(old, 1, c) \o last[p].cmd
                                    \o SubSeq(old, c + 1, Len(old))
                   /\ l.editLen = Len(old) + 1
                   /\ l.pos = c + 1
                   /\ pc[p] # "panic"

\* the sequences the decoder maps to a command
RecognizedSeqs ==
    {<< ESC, LBRACKET, x >> : x \in {KEY_UP, KEY_DOWN, KEY_RIGHT, KEY_LEFT,
                                      KEY_HOME, KEY_END}}
    \cup {<< ESC, LETTER_O, x >> : x \in {KEY_HOME, KEY_END}}
    \cup {<< ESC, LBRACKET, DIGIT_3, TILDE >>}

\* the command decoded last is an escape sequence, whole or cut short, that
\* is not one of the recognized ones
Unrecognized(cmd) == cmd # << >> /\ cmd[1] = ESC /\ cmd \notin RecognizedSeqs

\* C17: an escape sequence that is not recognized, or that a failed read cut
\* short, leaves content, length and cursor as they were and ends the call
\* with no return of its own; and the step that drops it puts the decoder
\* back at the top of the loop with no sequence pending.
C17_UnknownSequenceDropped ==
    /\ [](\A p \in threads :
            Unrecognized(last[p].cmd)
                => /\ LineUntouched(p)
                   /\ pc[p] \in {"loop", "seq0", "seq1", "seq2"}
                         \/ exitPath[p] = "readfail")
    /\ [][\A p \in threads :
            (last'[p] # last[p] /\ Unrecognized(last'[p].cmd))
                => (pc'[p] = "loop" /\ seq'[p] = << >> /\ exitPath'[p] = "none")]_vars

\* ESC [ 0 ~ met a line of two bytes with the cursor inside it and left it
C17_Witness ==
    /\ pc[1] = "loop"
    /\ last[1] = [cmd |-> << ESC, LBRACKET, DIGIT_0, TILDE >>, pos |-> 1,
                  content |-> << 97, SPACE >>]
    /\ l.pos = 1
    /\ l.editLen = 2

\* C18: the used content buf[0..editLen) never holds the terminator byte 0.
C18_NoTerminatorInContent ==
    \A i \in 1 .. l.editLen : Content[i] # 0

\* C20: the loop creates its next reader only when the one before holds no
\* byte it has read from the terminal and not decoded.
C20_NoByteLeftBehind ==
    [][\A p \in Callers : ReadKey(p) => rbuf[p] = << >>]_vars

\* no line occurs twice in s
Distinct(s) == \A i \in 1 .. Len(s), j \in 1 .. Len(s) : i # j => s[i] # s[j]

\* C11: with the maximum length N, the history never holds more than N
\* lines, and once N+1 distinct lines were added it holds the N added last,
\* in the order they were added.
C11_HistoryKeepsMostRecent ==
    /\ Len(history) <= maxLength
    /\ (Len(added) = maxLength + 1 /\ Distinct(added))
          => history = SubSeq(added, 2, Len(added))

\* a reply as the terminal should send it: ESC [ rows ; cols, with cols a
\* number
WellFormed(buf, i) ==
    /\ i >= 2
    /\ buf[0] = ESC
    /\ buf[1] = LBRACKET
    /\ \E j \in 2 .. i - 1 :
        /\ buf[j] = SEMICOLON
        /\ \A k \in 2 .. j - 1 : buf[k] # SEMICOLON
        /\ \E e \in j + 1 .. i :
            /\ e > j + 1
            /\ e = i \/ buf[e] = SEMICOLON
            /\ \A k \in j + 1 .. e - 1 : IsDigit(buf[k])

\* C12: when the window-size query failed or reported zero and a step of
\* the probe failed (a write, a read, or a reply without its prefix, its
\* separator or a numeric column), getColumns returns 80 and does not crash.
C12_ProbeFailureGivesDefault ==
    (/\ probe.pc \in {"done", "panic"}
     /\ probe.phase > 0
     /\ probe.failed \/ ~WellFormed(probe.buf, probe.i))
        => (probe.pc = "done" /\ probe.ret = DefaultCols)

\* C13: the window refreshSingleLine computes fits the columns left by the
\* prompt, its start and its cursor offset have not wrapped around, and the
\* slice it emits lies within the used content.
C13_WindowWithinLine ==
    win.called
        => /\ win.st = "ok"
           /\ win.plen + win.vlen <= win.cols
           /\ win.bi <= win.pos
           /\ win.vpos = win.pos - win.bi
           /\ win.bi + win.vlen <= win.len

\* C19: a probe never reads more than len(buf)-1 bytes; a turn of its loop
\* that goes on has read one byte more, a failed read ends the loop, and the
\* probe is never stuck: it reads, parses or has ended.
C19_ProbeReadsBounded ==
    /\ [](/\ probe.reads <= ProbeBufLen - 1
          /\ probe.pc \in {"read", "parse"} => ENABLED NextProbe)
    /\ [][probe.pc = "read"
            => /\ probe'.pc = "read" => probe'.reads = probe.reads + 1
               /\ probe'.rfail => (probe'.pc = "parse" /\ probe'.reads = probe.reads)
               /\ probe'.pc \in {"read", "parse"}]_vars

\* a probe has read as many bytes as it may, none of them 'R', and has left
\* its loop
C19_Witness ==
    /\ probe.pc = "parse"
    /\ probe.reads = ProbeBufLen - 1
    /\ ~probe.rfail
    /\ \A j \in 0 .. ProbeBufLen - 1 : probe.buf[j] # LETTER_R

====
